---- MODULE Spec2Model ----
(***************************************************************************)
(* Model of the couchdb_user module (database/misc/couchdb_user.py): one   *)
(* invocation of main() fetches the user document, decides, and issues at  *)
(* most one write to the CouchDB server.  The server and a second actor    *)
(* writing to the same document are the environment.                       *)
(***************************************************************************)
EXTENDS Integers, Sequences, FiniteSets, TLC

\* ---------------------------------------------------------------- bounds
MaxRoles == 2       \* longest role list given as input
MaxRuns == 2        \* invocations of main() in one behaviour
MaxOther == 2       \* writes of the other actor in one behaviour

\* ---------------------------------------------------------------- values
None == "None"                      \* Python None (string-valued arguments)
Usernames == {"bob"}
Passwords == {"bar", "foo"}
RoleNames == {"reader", "writer"}
Salts == {"s1", "s2"}
RoleLists == UNION {[1..n -> RoleNames] : n \in 0..MaxRoles}
\* the empty dict / a missing document (json null, Python None for userobj)
NoDoc == [k \in {} |-> None]
\* byte value of the strings that are hashed
Code == ("bar" :> 98) @@ ("foo" :> 102) @@ ("s1" :> 49) @@ ("s2" :> 50)

\* ------------------------------------------------- credential verifier
HexDigits == <<"0","1","2","3","4","5","6","7","8","9","a","b","c","d","e","f">>
\* binascii.hexlify of a one-byte digest
hexlify(b) == <<HexDigits[(b \div 16) + 1], HexDigits[(b % 16) + 1]>>

\* the pseudo-random function of the key derivation, on one byte
PRF(key, msg) == (key * 31 + msg * 17 + 7) % 256

RECURSIVE pbkdf2_rounds(_, _, _, _)
pbkdf2_rounds(key, u, acc, n) ==
    IF n = 0 THEN acc
    ELSE LET un == PRF(key, u)
         IN pbkdf2_rounds(key, un, (acc + un) % 256, n - 1)

\* passlib.utils.pbkdf2.pbkdf2(secret, salt, rounds): U1 = PRF(secret, salt||1),
\* Ui = PRF(secret, Ui-1), the digest combines U1..Urounds
pbkdf2(secret, salt, rounds) == pbkdf2_rounds(secret, (salt + 1) % 256, 0, rounds)

couchdb_user_valid_password(plaintext, salt, hash_, rounds) ==
    LET hashed == pbkdf2(Code[plaintext], Code[salt], rounds)
    IN hexlify(hashed) = hash_

\* ------------------------------------------------------ CouchDB server
\* what the server stores for a PUT body: a posted password is replaced by
\* the credential derived from it, anything else is stored as given
CouchStore(data, salt) ==
    IF "password" \in DOMAIN data
    THEN [k \in (DOMAIN data \ {"password"}) |-> data[k]]
         @@ [password_scheme |-> "pbkdf2",
             derived_key |-> hexlify(pbkdf2(Code[data.password], Code[salt], 10)),
             salt |-> salt,
             iterations |-> 10]
    ELSE data

\* does the revision of the request match the stored document
RevOK(cur, url) ==
    IF DOMAIN cur = {} THEN "rev" \notin DOMAIN url
    ELSE "rev" \in DOMAIN url /\ url.rev = cur["_rev"]

CouchPut(store, url, data, newrev, salt) ==
    IF RevOK(store[url.user], url)
    THEN [status |-> 201,
          store |-> [store EXCEPT ![url.user] =
                        CouchStore(data, salt) @@ ("_rev" :> newrev)]]
    ELSE [status |-> 409, store |-> store]

CouchDelete(store, url) ==
    IF DOMAIN store[url.user] # {} /\ RevOK(store[url.user], url)
    THEN [status |-> 200, store |-> [store EXCEPT ![url.user] = NoDoc]]
    ELSE [status |-> IF DOMAIN store[url.user] = {} THEN 404 ELSE 409,
          store |-> store]

CouchGet(store, url) ==
    IF DOMAIN store[url.user] = {} THEN [status |-> 404, body |-> NoDoc]
    ELSE [status |-> 200, body |-> store[url.user]]

\* documents the server can hold before the first invocation
Credentials ==
    {NoDoc}
    \cup {[password_scheme |-> "pbkdf2",
           derived_key |-> hexlify(pbkdf2(Code[p], Code["s1"], 10)),
           salt |-> "s1", iterations |-> 10] : p \in Passwords}
    \cup {[password_scheme |-> "pbkdf2",
           derived_key |-> hexlify(pbkdf2(Code["bar"], Code["s1"], 10)),
           salt |-> "s1"]}
    \cup {[password_scheme |-> "simple", password_sha |-> <<"9","c">>,
           salt |-> "s1"]}

StoredRoleLists == {<<>>, <<"reader">>, <<"reader", "writer">>, <<"writer", "reader">>}

UserDocs(u) ==
    {[name |-> u, roles |-> r, type |-> "user"] @@ c :
        r \in StoredRoleLists, c \in Credentials}

\* ----------------------------------------------------------- requests
couchdb_user_url(username) == [user |-> username]

\* a plausible slip: every HTTP error of the GET is taken for "no such user"
couchdb_user_get_swallow(r) ==
    IF r.status = 200 THEN [raise |-> None, obj |-> r.body]
    ELSE [raise |-> None, obj |-> NoDoc]

\* couchdb_user_get on the response of the GET: the document, None for a 404,
\* any other error is raised
couchdb_user_get(r) ==
    IF r.status = 200 THEN [raise |-> None, obj |-> r.body]
    ELSE IF r.status = 404 THEN [raise |-> None, obj |-> NoDoc]
    ELSE [raise |-> "HTTPError", obj |-> NoDoc]

\* a plausible slip: the error is reported and the step is tried again
fail_json_retry(msg) == [pc |-> "fetched", result |-> [kind |-> "fail_json", msg |-> msg]]

\* module.fail_json(msg=...): the invocation ends with a failure result
fail_json(msg) == [pc |-> "failed", result |-> [kind |-> "fail_json", msg |-> msg]]

\* an exception nothing catches ends the invocation with a traceback
uncaught(exc) == [pc |-> "failed", result |-> [kind |-> "exception", msg |-> exc]]

\* a plausible slip: the result always says changed
exit_json_true(c, u) == [pc |-> "done", result |-> [kind |-> "exit_json", changed |-> TRUE, user |-> u]]

\* module.exit_json(changed=..., user=...)
exit_json(c, u) == [pc |-> "done", result |-> [kind |-> "exit_json", changed |-> c, user |-> u]]

\* a plausible slip: the DELETE is sent without the revision
couchdb_user_delete_norev(userobj) ==
    [method |-> "DELETE", url |-> couchdb_user_url(userobj.name)]

\* the DELETE request of couchdb_user_delete
couchdb_user_delete(userobj) ==
    [method |-> "DELETE",
     url |-> couchdb_user_url(userobj.name) @@ [rev |-> userobj["_rev"]]]

\* keyword argument of couchdb_user_create with its default
Arg(args, key, default) == IF key \in DOMAIN args THEN args[key] ELSE default

\* a plausible slip: the iteration count is written whatever else is sent
PutData_iterations(username, args) ==
    LET password == Arg(args, "password", None)
        data == [name |-> username, roles |-> Arg(args, "roles", <<>>),
                 type |-> "user", iterations |-> Arg(args, "iterations", 10)]
    IN IF password # None
       THEN data @@ [password |-> password]
       ELSE IF "derived_key" \in DOMAIN args
       THEN data @@ [derived_key |-> args.derived_key, salt |-> args.salt]
       ELSE data

\* a plausible slip: the role list that was passed is not used
PutData_noroles(username, args) ==
    LET password == Arg(args, "password", None)
        data == [name |-> username, roles |-> <<>>, type |-> "user"]
    IN IF password # None
       THEN data @@ [password |-> password]
       ELSE IF "derived_key" \in DOMAIN args
       THEN data @@ [derived_key |-> args.derived_key, salt |-> args.salt,
                     iterations |-> Arg(args, "iterations", 10)]
       ELSE data

\* lines 164-174, 179-180 and 186-191: the body of the PUT
PutData(username, args) ==
    LET password == Arg(args, "password", None)
        roles == Arg(args, "roles", <<>>)
        iterations == Arg(args, "iterations", 10)
        data == [name |-> username, roles |-> roles, type |-> "user"]
    IN IF password # None
       THEN data @@ [password |-> password]
       ELSE IF "derived_key" \in DOMAIN args
       THEN data @@ [derived_key |-> args.derived_key, salt |-> args.salt,
                     iterations |-> iterations]
       ELSE data

\* couchdb_user_create: the PUT request it sends, or the exception it raises
\* before sending; args holds the keyword arguments that were passed
couchdb_user_create(username, args) ==
    LET password == Arg(args, "password", None)
        hasKey == "derived_key" \in DOMAIN args
        hasSalt == "salt" \in DOMAIN args
        url == IF "rev" \in DOMAIN args
               THEN couchdb_user_url(username) @@ [rev |-> args.rev]
               ELSE couchdb_user_url(username)
    IN IF password # None /\ hasKey
       THEN [raise |-> "ValueError"]
       ELSE IF (hasKey \/ hasSalt) /\ ~(hasKey /\ hasSalt)
       THEN [raise |-> "ValueError"]
       ELSE [raise |-> None, method |-> "PUT", url |-> url,
             data |-> PutData(username, args)]

\* ------------------------------------------------------------ main()
\* the task's arguments: name is required, the other keys may be omitted
TaskArgs ==
    {[name |-> u] @@ p @@ r @@ s :
        u \in Usernames,
        p \in {NoDoc} \cup {[password |-> x] : x \in Passwords},
        r \in {NoDoc} \cup {[roles |-> x] : x \in RoleLists \cup {<<"">>}},
        s \in {NoDoc} \cup {[state |-> x] : x \in {"present", "absent"}}}

\* AnsibleModule(argument_spec): omitted arguments take their defaults
argument_spec(taskargs) ==
    taskargs @@ [password |-> None, roles |-> <<>>, state |-> "present"]

\* lines 234-242: roles == [''] stands for the empty list
NormRoles(r) == IF r = <<"">> THEN <<>> ELSE r

\* a plausible slip: the role lists are compared as lists
set_aslist(l) == l

\* set(list)
set(l) == {l[i] : i \in DOMAIN l}

\* a plausible slip: the password scheme is not looked at
UnsupportedScheme_never(obj) == FALSE

\* a plausible slip: the comparison with 'pbkdf2' is inverted
UnsupportedScheme_inverted(obj) ==
    "password_scheme" \in DOMAIN obj /\ obj.password_scheme = "pbkdf2"

\* lines 274-275: the fetched record has a password scheme other than pbkdf2
UnsupportedScheme(obj) ==
    "password_scheme" \in DOMAIN obj /\ obj.password_scheme # "pbkdf2"

\* line 283 reads userobj['iterations']: KeyError when the key is missing
VerifyRaises(obj, pw) ==
    pw # None /\ "derived_key" \in DOMAIN obj /\ "iterations" \notin DOMAIN obj

\* a plausible slip: an omitted password leaves the credential alone
PasswordArgs_keep(obj, pw) ==
    IF pw # None
    THEN IF "derived_key" \in DOMAIN obj
         THEN IF couchdb_user_valid_password(pw, obj.salt, obj.derived_key,
                                             obj.iterations)
              THEN NoDoc
              ELSE [password |-> pw]
         ELSE [password |-> pw]
    ELSE NoDoc

\* a plausible slip: a supplied password is always sent, verified or not
PasswordArgs_noverify(obj, pw) ==
    IF pw # None THEN [password |-> pw]
    ELSE IF "derived_key" \in DOMAIN obj THEN [password |-> None] ELSE NoDoc

\* lines 279-290: the password part of create_args
PasswordArgs(obj, pw) ==
    IF pw # None
    THEN IF "derived_key" \in DOMAIN obj
         THEN IF couchdb_user_valid_password(pw, obj.salt, obj.derived_key,
                                             obj.iterations)
              THEN NoDoc
              ELSE [password |-> pw]
         ELSE [password |-> pw]
    ELSE IF "derived_key" \in DOMAIN obj
         THEN [password |-> None]
         ELSE NoDoc

\* a plausible slip: 'if roles and ...', an empty role list asks for no change
RolesArgs_truthy(obj, rl, create_args) ==
    IF rl # <<>> /\ set(obj.roles) # set(rl)
    THEN LET withRoles == [roles |-> rl] @@ create_args
         IN IF "derived_key" \in DOMAIN obj /\ "password" \notin DOMAIN create_args
            THEN withRoles @@ [derived_key |-> obj.derived_key,
                               salt |-> obj.salt,
                               iterations |-> obj.iterations]
            ELSE withRoles
    ELSE create_args

\* lines 292-300: the roles part of create_args, with the credential carried
\* forward when no password entry is in create_args
RolesArgs(obj, rl, create_args) ==
    IF set(obj.roles) # set(rl)
    THEN LET withRoles == [roles |-> rl] @@ create_args
         IN IF "derived_key" \in DOMAIN obj /\ "password" \notin DOMAIN create_args
            THEN withRoles @@ [derived_key |-> obj.derived_key,
                               salt |-> obj.salt,
                               iterations |-> obj.iterations]
            ELSE withRoles
    ELSE create_args

\* lines 272-300
CreateArgs(obj, pw, rl) == RolesArgs(obj, rl, PasswordArgs(obj, pw))

VARIABLES
    db,          \* the server's _users database: username -> document
    seq,         \* revisions handed out by the server so far
    task,        \* the task's arguments as written, omitted ones missing
    params,      \* module.params: the arguments with their defaults
    pc,          \* where main() is: idle, get, fetched, done, failed
    username, password, roles, state,   \* main's locals
    userobj,     \* the fetched document, NoDoc for None
    changed,
    result,      \* how the invocation ended: exit_json, fail_json, exception
    calls,       \* the requests this invocation has sent, with their status
    runs,        \* invocations started
    others,      \* writes of the other actor
    dirty,       \* the other actor wrote since this invocation's fetch
    interfered,  \* the other actor wrote between the previous fetch and this one
    prev         \* result of the previous invocation

vars == <<db, seq, task, params, pc, username, password, roles, state, userobj,
          changed, result, calls, runs, others, dirty, interfered, prev>>

locals == <<username, password, roles, state>>

NoResult == [kind |-> "none"]

\* a plausible slip: the update is sent with whatever revision is current
UpdateRev_current(obj) ==
    IF DOMAIN db[obj.name] # {} THEN db[obj.name]["_rev"] ELSE obj["_rev"]

\* line 305: the revision sent with an update
UpdateRev(obj) == obj["_rev"]

\* the end of an invocation
End(e) == pc' = e.pc /\ result' = e.result

Init ==
    /\ db \in [Usernames -> {NoDoc}]
              \cup UNION {{[v \in Usernames |-> IF v = u THEN d @@ ("_rev" :> 1) ELSE NoDoc] :
                              d \in UserDocs(u)} : u \in Usernames}
    /\ seq = 1
    /\ task \in TaskArgs
    /\ params = argument_spec(task)
    /\ pc = "idle"
    /\ username = None /\ password = None /\ roles = <<>> /\ state = None
    /\ userobj = NoDoc
    /\ changed = FALSE
    /\ result = NoResult
    /\ calls = <<>>
    /\ runs = 0 /\ others = 0
    /\ dirty = FALSE /\ interfered = FALSE
    /\ prev = NoResult

\* lines 217-257: a new invocation reads its parameters
MainParams ==
    /\ pc \in {"idle", "done", "failed"}
    /\ runs < MaxRuns
    /\ username' = params.name
    /\ password' = params.password
    /\ roles' = NormRoles(params.roles)
    /\ state' = params.state
    /\ changed' = FALSE
    /\ userobj' = NoDoc
    /\ calls' = <<>>
    /\ prev' = result
    /\ result' = NoResult
    /\ runs' = runs + 1
    /\ pc' = "get"
    /\ UNCHANGED <<db, seq, task, params, others, dirty, interfered>>

\* lines 259-262 with couchdb_user_get: 404 is None, any other error is fatal
MainGet ==
    /\ pc = "get"
    /\ \E err \in BOOLEAN :
        LET url == couchdb_user_url(username)
            r == IF err THEN [status |-> 500, body |-> NoDoc] ELSE CouchGet(db, url)
            got == couchdb_user_get(r)
        IN /\ calls' = Append(calls, [method |-> "GET", url |-> url, status |-> r.status])
           /\ IF got.raise = None
              THEN /\ userobj' = got.obj
                   /\ pc' = "fetched"
                   /\ result' = result
              ELSE /\ userobj' = userobj
                   /\ End(fail_json("error getting user"))
    /\ interfered' = dirty
    /\ dirty' = FALSE
    /\ UNCHANGED <<db, seq, task, params, locals, changed, runs, others, prev>>

\* lines 264-269 with couchdb_user_delete
MainDelete ==
    /\ pc = "fetched"
    /\ DOMAIN userobj # {}
    /\ state = "absent"
    /\ \E err \in BOOLEAN :
        LET req == couchdb_user_delete(userobj)
            r == IF err THEN [status |-> 500, store |-> db] ELSE CouchDelete(db, req.url)
        IN /\ calls' = Append(calls, req @@ [status |-> r.status])
           /\ db' = r.store
           /\ IF r.status = 200
              THEN /\ changed' = TRUE
                   /\ seq' = seq + 1
                   /\ End(exit_json(TRUE, username))
              ELSE /\ changed' = changed
                   /\ seq' = seq
                   /\ End(fail_json("error deleting user"))
    /\ UNCHANGED <<task, params, locals, userobj, runs, others, dirty, interfered, prev>>

\* lines 274-277: unsupported password scheme
MainUnsupported ==
    /\ pc = "fetched"
    /\ DOMAIN userobj # {}
    /\ state # "absent"
    /\ UnsupportedScheme(userobj)
    /\ End(fail_json("unsupported password scheme"))
    /\ UNCHANGED <<db, seq, task, params, locals, userobj, changed, calls, runs,
                   others, dirty, interfered, prev>>

\* line 283: the record has a derived key and no iteration count; the KeyError
\* is not caught
MainKeyError ==
    /\ pc = "fetched"
    /\ DOMAIN userobj # {}
    /\ state # "absent"
    /\ ~UnsupportedScheme(userobj)
    /\ VerifyRaises(userobj, password)
    /\ End(uncaught("KeyError"))
    /\ UNCHANGED <<db, seq, task, params, locals, userobj, changed, calls, runs,
                   others, dirty, interfered, prev>>

\* lines 272-305 and 314: create_args is not empty, the record is updated;
\* an error of the PUT is not caught
MainUpdate ==
    /\ pc = "fetched"
    /\ DOMAIN userobj # {}
    /\ state # "absent"
    /\ ~UnsupportedScheme(userobj)
    /\ ~VerifyRaises(userobj, password)
    /\ LET create_args == CreateArgs(userobj, password, roles)
           req == couchdb_user_create(username, [rev |-> UpdateRev(userobj)] @@ create_args)
       IN /\ DOMAIN create_args # {}
          /\ IF req.raise # None
             THEN /\ End(uncaught(req.raise))
                  /\ UNCHANGED <<db, seq, changed, calls>>
             ELSE \E err \in BOOLEAN, s \in Salts :
                    LET r == IF err THEN [status |-> 500, store |-> db]
                             ELSE CouchPut(db, req.url, req.data, seq + 1, s)
                    IN /\ calls' = Append(calls, [method |-> req.method, url |-> req.url,
                                                  data |-> req.data, status |-> r.status])
                       /\ db' = r.store
                       /\ IF r.status = 201
                          THEN /\ changed' = TRUE
                               /\ seq' = seq + 1
                               /\ End(exit_json(TRUE, username))
                          ELSE /\ changed' = changed
                               /\ seq' = seq
                               /\ End(uncaught("HTTPError"))
    /\ UNCHANGED <<task, params, locals, userobj, runs, others, dirty, interfered, prev>>

\* lines 306-312 and 314: the record does not exist and is wanted
MainCreate ==
    /\ pc = "fetched"
    /\ DOMAIN userobj = {}
    /\ state = "present"
    /\ LET req == couchdb_user_create(username, [password |-> password, roles |-> roles])
       IN IF req.raise # None
          THEN /\ End(fail_json("error creating user"))
               /\ UNCHANGED <<db, seq, changed, calls>>
          ELSE \E err \in BOOLEAN, s \in Salts :
                 LET r == IF err THEN [status |-> 500, store |-> db]
                          ELSE CouchPut(db, req.url, req.data, seq + 1, s)
                 IN /\ calls' = Append(calls, [method |-> req.method, url |-> req.url,
                                               data |-> req.data, status |-> r.status])
                    /\ db' = r.store
                    /\ IF r.status = 201
                       THEN /\ changed' = TRUE
                            /\ seq' = seq + 1
                            /\ End(exit_json(TRUE, username))
                       ELSE /\ changed' = changed
                            /\ seq' = seq
                            /\ End(fail_json("error creating user"))
    /\ UNCHANGED <<task, params, locals, userobj, runs, others, dirty, interfered, prev>>

\* lines 302, 306-307 and 314: nothing to write
MainNoChange ==
    /\ pc = "fetched"
    /\ \/ DOMAIN userobj = {} /\ state # "present"
       \/ /\ DOMAIN userobj # {}
          /\ state # "absent"
          /\ ~UnsupportedScheme(userobj)
          /\ ~VerifyRaises(userobj, password)
          /\ DOMAIN CreateArgs(userobj, password, roles) = {}
    /\ End(exit_json(changed, username))
    /\ UNCHANGED <<db, seq, task, params, locals, userobj, changed, calls, runs,
                   others, dirty, interfered, prev>>

\* documents another client of the server writes
OtherDocs(u) ==
    {[name |-> u, roles |-> <<"writer">>, type |-> "user"],
     [name |-> u, roles |-> <<"reader">>, type |-> "user",
      password_scheme |-> "pbkdf2",
      derived_key |-> hexlify(pbkdf2(Code["foo"], Code["s2"], 10)),
      salt |-> "s2", iterations |-> 10]}

\* another client creates, replaces or deletes the document
OtherActor ==
    /\ others < MaxOther
    /\ \E u \in Usernames : \E d \in OtherDocs(u) \cup {NoDoc} :
        /\ DOMAIN d # {} \/ DOMAIN db[u] # {}
        /\ db' = [db EXCEPT ![u] = IF DOMAIN d = {} THEN NoDoc
                                   ELSE d @@ ("_rev" :> seq + 1)]
    /\ seq' = seq + 1
    /\ others' = others + 1
    /\ dirty' = TRUE
    /\ UNCHANGED <<task, params, pc, locals, userobj, changed, result, calls, runs,
                   interfered, prev>>

Next ==
    \/ MainParams
    \/ MainGet
    \/ MainDelete
    \/ MainUnsupported
    \/ MainKeyError
    \/ MainUpdate
    \/ MainCreate
    \/ MainNoChange
    \/ OtherActor

Spec == Init /\ [][Next]_vars

\* --------------------------------------------------------- properties
HasCred(obj) == "derived_key" \in DOMAIN obj
CredFields == {"derived_key", "salt", "iterations"}
Ended == pc \in {"done", "failed"}
\* the role list the task asks for
DesiredRoles == IF params.roles = <<"">> THEN <<>> ELSE params.roles
\* the requests of this invocation that carry a body
Bodies == {i \in DOMAIN calls : "data" \in DOMAIN calls[i]}
IsUpdate(c) == c.method = "PUT" /\ "rev" \in DOMAIN c.url
\* the supplied password reproduces the fetched derived key
PasswordVerifies ==
    /\ password # None
    /\ HasCred(userobj)
    /\ "iterations" \in DOMAIN userobj
    /\ hexlify(pbkdf2(Code[password], Code[userobj.salt], userobj.iterations))
         = userobj.derived_key
\* the body carries the fetched credential unchanged
CarriesCred(data) ==
    /\ CredFields \subseteq DOMAIN data
    /\ data.derived_key = userobj.derived_key
    /\ data.salt = userobj.salt
    /\ "iterations" \in DOMAIN userobj
    /\ data.iterations = userobj.iterations

\* C1: an invocation with state=present against a record with a derived
\* credential, whose desired roles differ from the fetched ones and which sends
\* no new plaintext password (none desired, or the desired one verifies),
\* issues an update that carries the record's derived_key, salt and iterations
C1_CarryForward ==
    (/\ Ended
     /\ state = "present"
     /\ HasCred(userobj)
     /\ set(userobj.roles) # set(DesiredRoles)
     /\ (params.password = None \/ PasswordVerifies))
    => \E i \in Bodies : IsUpdate(calls[i]) /\ CarriesCred(calls[i].data)

\* C2: a second run with the same desired state, with no write of another
\* actor since the first run's fetch, issues no write and reports changed=false
C2_Idempotence ==
    (/\ pc = "done"
     /\ runs >= 2
     /\ prev.kind = "exit_json"
     /\ ~interfered)
    => (result.changed = FALSE /\ Len(calls) = 1)

\* C3: after a successful invocation with state=present the record's role set
\* is the desired role set
C3_RoleConvergence ==
    (/\ pc = "done"
     /\ state = "present"
     /\ ~dirty)
    => (/\ DOMAIN db[username] # {}
        /\ set(db[username].roles) = set(DesiredRoles))

\* C4: when the supplied password verifies against the fetched derived
\* credential, no request body of the invocation has a password field; an
\* update sent because the roles differ carries the fetched credential
C4_NoPlaintextLeak ==
    PasswordVerifies =>
        \A i \in Bodies :
            /\ "password" \notin DOMAIN calls[i].data
            /\ CarriesCred(calls[i].data)

C4_Witness ==
    /\ PasswordVerifies
    /\ \E i \in Bodies : calls[i].status = 201 /\ IsUpdate(calls[i])

\* C5: no request body holds both a password field and a derived credential
\* field (derived_key, salt or iterations)
C5_MutualExclusivity ==
    \A i \in Bodies :
        ~("password" \in DOMAIN calls[i].data
          /\ CredFields \cap DOMAIN calls[i].data # {})

\* an update with a new password for a record that has a credential and whose
\* roles differ as well: both kinds of field were candidates for the body
C5_Witness ==
    /\ HasCred(userobj)
    /\ set(userobj.roles) # set(roles)
    /\ \E i \in Bodies : IsUpdate(calls[i]) /\ "password" \in DOMAIN calls[i].data

\* C6: an update or delete carries the revision fetched in the same
\* invocation; when another actor wrote to the record after the fetch, the
\* update or delete is rejected, the database keeps the other actor's document,
\* the invocation fails and sends nothing more
C6_StaleRevision ==
    [][/\ (pc = "fetched" /\ calls' # calls) =>
            LET c == calls'[Len(calls')]
            IN /\ DOMAIN userobj # {} =>
                    ("rev" \in DOMAIN c.url /\ c.url.rev = userobj["_rev"])
               /\ (DOMAIN userobj # {} /\ dirty) =>
                    /\ c.status \in {404, 409, 500}
                    /\ db' = db
                    /\ pc' = "failed"
                    /\ result'.kind \in {"fail_json", "exception"}
       /\ (pc = "failed" /\ calls' # calls) => calls' = <<>>]_vars

C6_Witness ==
    /\ pc = "failed"
    /\ dirty
    /\ Len(calls) = 2
    /\ calls[2].method = "PUT"
    /\ calls[2].status = 409
    /\ DOMAIN userobj # {}
    /\ DOMAIN db[username] # {}
    /\ db[username]["_rev"] # userobj["_rev"]

\* C7: an invocation sends exactly one GET, first, and at most one write
C7_OneReadOneWrite ==
    /\ Len(calls) <= 2
    /\ pc \in {"idle", "get"} => calls = <<>>
    /\ pc \in {"fetched", "done", "failed"} =>
            (Len(calls) >= 1 /\ calls[1].method = "GET")
    /\ \A i \in DOMAIN calls : i > 1 => calls[i].method \in {"PUT", "DELETE"}

C7_Witness ==
    /\ pc = "done"
    /\ Len(calls) = 2
    /\ calls[1].method = "GET"
    /\ calls[2].method = "DELETE"

\* C8: the record exists, state=present and the fetched password_scheme is set
\* and is not pbkdf2: the invocation fails with the unsupported-scheme error,
\* has sent no write and reports no success
C8_UnsupportedScheme ==
    (/\ Ended
     /\ DOMAIN userobj # {}
     /\ state = "present"
     /\ "password_scheme" \in DOMAIN userobj
     /\ userobj.password_scheme # "pbkdf2")
    => (/\ pc = "failed"
        /\ result.kind = "fail_json"
        /\ result.msg = "unsupported password scheme"
        /\ Len(calls) = 1
        /\ changed = FALSE)

C8_Witness ==
    /\ pc = "failed"
    /\ result.kind = "fail_json"
    /\ result.msg = "unsupported password scheme"
    /\ params.password # None
    /\ set(userobj.roles) # set(roles)

\* a response that is an error: anything but success, and but the 404 of a GET
IsError(c) == c.status \notin {200, 201} /\ ~(c.method = "GET" /\ c.status = 404)

\* C9: a request that failed is the last one of its invocation and the
\* invocation ended without a success result; a GET answered 404 is no failure
C9_ErrorPropagation ==
    /\ \A i \in DOMAIN calls :
          IsError(calls[i]) =>
              /\ i = Len(calls)
              /\ pc = "failed"
              /\ result.kind \in {"fail_json", "exception"}
    /\ (Len(calls) = 1 /\ calls[1].status = 404) => pc \in {"fetched", "done"}

C9_Witness ==
    /\ pc = "failed"
    /\ Len(calls) = 2
    /\ calls[2].method = "PUT"
    /\ calls[2].status = 500
    /\ result.kind = "exception"

\* C10: the GET answered 404 and state=present: exactly one PUT follows,
\* without a revision, whose body is name, the desired roles, type "user" and
\* the password exactly when one was supplied; a success result says changed
C10_Create ==
    (/\ Ended
     /\ calls[1].status = 404
     /\ params.state = "present")
    => /\ Len(calls) = 2
       /\ calls[2].method = "PUT"
       /\ calls[2].url = [user |-> params.name]
       /\ LET data == calls[2].data
          IN /\ data.name = params.name
             /\ data.roles = DesiredRoles
             /\ data.type = "user"
             /\ IF params.password = None
                THEN DOMAIN data = {"name", "roles", "type"}
                ELSE /\ DOMAIN data = {"name", "roles", "type", "password"}
                     /\ data.password = params.password
       /\ calls[2].status = 201 <=> pc = "done"
       /\ pc = "done" => (result.changed = TRUE /\ result.user = params.name)

C10_Witness ==
    /\ pc = "done"
    /\ Len(calls) = 2
    /\ calls[1].status = 404
    /\ calls[2].status = 201
    /\ "password" \in DOMAIN calls[2].data
    /\ calls[2].data.roles = <<"reader", "writer">>
    /\ DOMAIN db[username] # {}
    /\ HasCred(db[username])

\* the GET of this invocation found the record / found none
Found == Len(calls) >= 1 /\ calls[1].status = 200
NotFound == Len(calls) >= 1 /\ calls[1].status = 404

\* C11: with state=absent an existing record gets exactly one DELETE with the
\* fetched revision and, once accepted, changed=true; a missing record gets no
\* request and changed=false; no PUT is ever sent
C11_Absent ==
    params.state = "absent" =>
        /\ \A i \in DOMAIN calls : calls[i].method # "PUT"
        /\ (Ended /\ Found) =>
              /\ Len(calls) = 2
              /\ calls[2].method = "DELETE"
              /\ calls[2].url = [user |-> params.name, rev |-> userobj["_rev"]]
              /\ calls[2].status = 200 <=> pc = "done"
              /\ pc = "done" => (/\ result.changed = TRUE
                                /\ (dirty \/ DOMAIN db[username] = {}))
        /\ (Ended /\ NotFound) =>
              /\ Len(calls) = 1
              /\ pc = "done"
              /\ result.changed = FALSE

C11_Witness ==
    /\ params.state = "absent"
    /\ pc = "done"
    /\ Found
    /\ calls[2].method = "DELETE"
    /\ calls[2].status = 200
    /\ DOMAIN db[username] = {}

\* the roles of a list, whatever their order and number of occurrences
RoleSet(l) == {l[i] : i \in 1..Len(l)}

SchemeSupported ==
    "password_scheme" \in DOMAIN userobj => userobj.password_scheme = "pbkdf2"
\* the stored iteration count, 10 when the record has none
StoredIterations(obj) == IF "iterations" \in DOMAIN obj THEN obj.iterations ELSE 10
\* the supplied password reproduces the derived key of a record
VerifiesAgainst(obj) ==
    /\ password # None
    /\ HasCred(obj)
    /\ hexlify(pbkdf2(Code[password], Code[obj.salt], StoredIterations(obj)))
         = obj.derived_key

\* C13: the record exists (with a scheme main() accepts), state=present and a
\* password is supplied that does not verify against the stored credential or
\* finds none: exactly one update is sent, its body has the plaintext password
\* and no derived field, and once accepted the stored credential verifies
C13_PasswordSet ==
    (/\ Ended
     /\ Found
     /\ params.state = "present"
     /\ SchemeSupported
     /\ params.password # None
     /\ ~VerifiesAgainst(userobj))
    => (/\ Len(calls) = 2
        /\ IsUpdate(calls[2])
        /\ "password" \in DOMAIN calls[2].data
        /\ calls[2].data.password = params.password
        /\ CredFields \cap DOMAIN calls[2].data = {}
        /\ (calls[2].status = 201 /\ ~dirty) =>
              (DOMAIN db[username] # {} /\ VerifiesAgainst(db[username])))

\* C14: the fetched record has a derived key and no iteration count and a
\* password is supplied: it is verified with 10 iterations and the invocation
\* goes on as the verification says, it does not fail
C14_MissingIterations ==
    (/\ Ended
     /\ Found
     /\ params.state = "present"
     /\ SchemeSupported
     /\ HasCred(userobj)
     /\ "iterations" \notin DOMAIN userobj
     /\ params.password # None)
    => (/\ result.kind # "exception"
        /\ VerifiesAgainst(userobj) =>
              \A i \in Bodies : "password" \notin DOMAIN calls[i].data
        /\ ~VerifiesAgainst(userobj) =>
              \E i \in Bodies : /\ "password" \in DOMAIN calls[i].data
                                /\ calls[i].data.password = params.password)

\* the task does not give a role list
RolesOmitted == "roles" \notin DOMAIN task

\* C15 as claimed: with the role list omitted, a successful invocation against
\* an existing record leaves the record's roles as they were fetched
C15_OmittedRolesKept ==
    (/\ RolesOmitted
     /\ pc = "done"
     /\ Found
     /\ params.state = "present"
     /\ ~dirty)
    => (/\ DOMAIN db[username] # {}
        /\ db[username].roles = userobj.roles)

\* C15, amended: an omitted role list is the empty role list; main() works
\* with roles = [] and after a successful invocation with state=present the
\* record has no roles
C15_OmittedRolesEmpty ==
    RolesOmitted =>
        /\ pc # "idle" => roles = <<>>
        /\ (pc = "done" /\ params.state = "present" /\ ~dirty) =>
              (DOMAIN db[username] # {} /\ db[username].roles = <<>>)

\* roles omitted, the fetched record has roles and nothing else differs: the
\* update is sent for the roles alone
C15_Witness ==
    /\ RolesOmitted
    /\ pc = "done"
    /\ Found
    /\ userobj.roles # <<>>
    /\ ~HasCred(userobj)
    /\ params.password = None
    /\ Len(calls) = 2
    /\ calls[2].status = 201
    /\ calls[2].data.roles = <<>>
    /\ db[username].roles = <<>>

\* C16: the record exists with a derived credential, state=present, no
\* password is supplied and the desired roles are the fetched ones: one update
\* is sent whose body has no password and no derived field, and once it is
\* accepted the result is changed=true
C16_PasswordOmitted ==
    (/\ Ended
     /\ Found
     /\ params.state = "present"
     /\ HasCred(userobj)
     /\ params.password = None
     /\ RoleSet(DesiredRoles) = RoleSet(userobj.roles))
    => (/\ Len(calls) = 2
        /\ IsUpdate(calls[2])
        /\ calls[2].url.rev = userobj["_rev"]
        /\ DOMAIN calls[2].data \cap ({"password"} \cup CredFields) = {}
        /\ calls[2].status = 201 <=> pc = "done"
        /\ pc = "done" => result.changed = TRUE
        /\ (pc = "done" /\ ~dirty) => ~HasCred(db[username]))

C16_Witness ==
    /\ pc = "done"
    /\ Found
    /\ HasCred(userobj)
    /\ params.password = None
    /\ DesiredRoles = userobj.roles
    /\ Len(calls) = 2
    /\ calls[2].status = 201
    /\ ~HasCred(db[username])
    /\ result.changed = TRUE

\* the fetched record has a password scheme that is not pbkdf2
FetchedUnsupported ==
    "password_scheme" \in DOMAIN userobj /\ userobj.password_scheme # "pbkdf2"
\* the writes of this invocation
Writes == {i \in DOMAIN calls : calls[i].method \in {"PUT", "DELETE"}}

\* C17 as claimed: no write is sent to a record fetched with an unsupported
\* password scheme
C17_UnsupportedNeverWritten ==
    FetchedUnsupported => Writes = {}

\* C17, amended: a record fetched with an unsupported password scheme is never
\* updated; with state=present nothing is written, with state=absent it is
\* deleted with the fetched revision
C17_UnsupportedOnlyDeleted ==
    FetchedUnsupported =>
        /\ \A i \in Writes :
              /\ calls[i].method = "DELETE"
              /\ params.state = "absent"
              /\ calls[i].url.rev = userobj["_rev"]
        /\ (Ended /\ params.state = "absent") => Writes # {}
        /\ params.state = "present" => Writes = {}

C17_Witness ==
    /\ FetchedUnsupported
    /\ pc = "done"
    /\ params.state = "absent"
    /\ calls[2].method = "DELETE"
    /\ calls[2].status = 200
    /\ result.changed = TRUE

\* C18: a success result says changed=true exactly when the invocation sent a
\* write that was accepted, changed=false when it sent none, and names the
\* desired user
C18_ChangedFlag ==
    pc = "done" =>
        /\ result.kind = "exit_json"
        /\ result.user = params.name
        /\ result.changed <=> (\E i \in Writes : calls[i].status \in {200, 201})
        /\ Writes = {} => result.changed = FALSE
        /\ result.changed = changed

C18_Witness ==
    /\ pc = "done"
    /\ result.kind = "exit_json"
    /\ result.changed = FALSE
    /\ Writes = {}
    /\ Found
    /\ runs = 2
    /\ prev.kind = "exit_json"
    /\ prev.changed = TRUE
====
